---- MODULE Spec2Model ----
(***************************************************************************)
(* A model of the RustLua tree-walking interpreter                         *)
(* (src/src/interpreter/mod.rs, value.rs, error.rs, ast.rs).               *)
(*                                                                         *)
(* The evaluator is translated function by function into RECURSIVE         *)
(* operators that thread the interpreter's heap explicitly:                *)
(*   cells   the Rc<RefCell<Value>> cells scopes point to                  *)
(*   tables  the Rc<RefCell<Table>> backing stores                         *)
(*   global  Interpreter::global_scope                                      *)
(*   out     what the host's native `print` has written                    *)
(* A Scope is a function from names to cell ids, so that Scope::clone      *)
(* copies the map and shares the cells.                                    *)
(*                                                                         *)
(* global_scope, program, result, scope and calls belong to one            *)
(* Interpreter; cells, tables and out are the heap and the standard        *)
(* output of the process.  `other` is a second Interpreter living in the   *)
(* same process, and `solo` is a process of its own in which an            *)
(* Interpreter receives the calls of the first one and nothing else.       *)
(*                                                                         *)
(* f64 is modelled by the exact values n * 2^exp / d in a normal form,     *)
(* with d = 0 for the infinities (n = 1, -1) and NaN (n = 0); exp is 0     *)
(* unless the value is too large for n alone.  Negative zero is not kept   *)
(* apart from zero, and rounding is not modelled.                          *)
(***************************************************************************)
EXTENDS Integers, Sequences, FiniteSets, TLC

VARIABLES global_scope, cells, tables, out, program, result, scope, calls,
          other, solo

vars ==
    <<global_scope, cells, tables, out, program, result, scope, calls, other,
      solo>>

----------------------------------------------------------------------------
(* f64 *)

Abs(x) == IF x < 0 THEN -x ELSE x

Sign(x) == IF x < 0 THEN -1 ELSE IF x > 0 THEN 1 ELSE 0

RECURSIVE Gcd(_, _)
Gcd(a, b) == IF b = 0 THEN a ELSE Gcd(b, a % b)

I32_MAX == 2147483647

I32_MIN == -I32_MAX - 1

\* the normal form of n * 2^exp / d for n/d in lowest terms, d > 0: exp is
\* as small as the size of n allows
RECURSIVE Shift(_, _, _)
Shift(n, d, exp) ==
    IF exp > 0 /\ d % 2 = 0 THEN Shift(n, d \div 2, exp - 1)
    ELSE IF exp > 0 /\ Abs(n) <= I32_MAX \div 2 THEN Shift(2 * n, d, exp - 1)
    ELSE [n |-> n, d |-> d, exp |-> exp]

\* the f64 n * 2^exp / d
Scaled(n, d, exp) ==
    IF d = 0 THEN [n |-> Sign(n), d |-> 0, exp |-> 0]
    ELSE LET s == IF d < 0 THEN -1 ELSE 1
             g == Gcd(Abs(n), Abs(d))
         IN  Shift((s * n) \div g, (s * d) \div g, exp)

\* the f64 n / d
F64(n, d) == Scaled(n, d, 0)

NaN == [n |-> 0, d |-> 0, exp |-> 0]

is_nan(a) == a.n = 0 /\ a.d = 0

f64_add(a, b) ==
    IF is_nan(a) \/ is_nan(b) THEN NaN
    ELSE IF a.d = 0 /\ b.d = 0 THEN (IF a.n = b.n THEN a ELSE NaN)
    ELSE IF a.d = 0 THEN a
    ELSE IF b.d = 0 THEN b
    ELSE LET m == IF a.exp < b.exp THEN a.exp ELSE b.exp
         IN  Scaled(a.n * 2^(a.exp - m) * b.d + b.n * 2^(b.exp - m) * a.d,
                    a.d * b.d, m)

f64_neg(a) == [a EXCEPT !.n = -a.n]

f64_sub(a, b) == f64_add(a, f64_neg(b))

f64_mul(a, b) == Scaled(a.n * b.n, a.d * b.d, a.exp + b.exp)

f64_recip(a) ==
    IF a.n < 0 THEN F64(-a.d, -a.n * 2^a.exp) ELSE F64(a.d, a.n * 2^a.exp)

f64_div(a, b) == f64_mul(a, f64_recip(b))

f64_eq(a, b) == ~is_nan(a) /\ ~is_nan(b) /\ a = b

f64_le(a, b) ==
    /\ ~is_nan(a)
    /\ ~is_nan(b)
    /\ IF a.d = 0 /\ b.d = 0 THEN a.n <= b.n
       ELSE LET m == IF a.exp < b.exp THEN a.exp ELSE b.exp
            IN  a.n * 2^(a.exp - m) * b.d <= b.n * 2^(b.exp - m) * a.d

f64_trunc(a) ==
    IF a.d <= 1 THEN a
    ELSE F64(Sign(a.n) * ((Abs(a.n) * 2^a.exp) \div a.d), 1)

----------------------------------------------------------------------------
(* Value, Index, LuaError *)

Nil == [t |-> "Nil"]

Number(x) == [t |-> "Number", x |-> x]

String(s) == [t |-> "String", str |-> s]

Boolean(b) == [t |-> "Boolean", b |-> b]

Table(id) == [t |-> "Table", id |-> id]

FunctionCapture(parameters, body, capture) ==
    [t |-> "Function", parameters |-> parameters, body |-> body,
     capture |-> capture]

NativeFunction(f) == [t |-> "NativeFunction", func |-> f]

\* is_truthy taking the number 0 for false as well
is_truthy_zero_false(v) ==
    ~(v = Boolean(FALSE) \/ v = Nil \/ v = Number(F64(0, 1)))

is_truthy(v) == ~(v = Boolean(FALSE) \/ v = Nil)

Index_Name(s) == [k |-> "Name", str |-> s]

Index_Number(i) == [k |-> "Number", i |-> i]

Ok(v) == [kind |-> "Ok", value |-> v]

LuaError(e, v) == [kind |-> "Err", error |-> e, value |-> v]

\* todo!(msg): the evaluator aborts instead of returning a Result
Todo(msg) == [kind |-> "Panic", msg |-> msg]

\* the evaluation did not return within MaxIter loop iterations
Diverge == [kind |-> "Diverge"]

----------------------------------------------------------------------------
(* Bounds *)

\* most iterations of one numeric for the model follows before it reports
\* the evaluation as not returning
MaxIter == 24

\* most execute calls on one interpreter instance
MaxCalls == 3

----------------------------------------------------------------------------
(* Scope (value.rs) and the heap *)

EmptyScope == [name \in {} |-> 0]

Scope_has(sc, name) == name \in DOMAIN sc

Scope_get(st, sc, name) ==
    IF name \in DOMAIN sc THEN <<st.cells[sc[name]]>> ELSE <<>>

\* Scope::put without the in-place overwrite: every put makes a new cell
Scope_put_fresh(st, sc, name, value) ==
    [st |-> [st EXCEPT !.cells = Append(st.cells, value)],
     scope |-> (name :> (Len(st.cells) + 1)) @@ sc]

\* Scope::put: an existing cell is overwritten in place, a new name gets a
\* new cell.  Returns the heap and the scope's map.
Scope_put(st, sc, name, value) ==
    IF name \in DOMAIN sc
    THEN [st |-> [st EXCEPT !.cells[sc[name]] = value], scope |-> sc]
    ELSE [st |-> [st EXCEPT !.cells = Append(st.cells, value)],
          scope |-> (name :> (Len(st.cells) + 1)) @@ sc]

\* self.global_scope.put(name, value)
global_put(st, name, value) ==
    LET p == Scope_put(st, st.global, name, value)
    IN  [p.st EXCEPT !.global = p.scope]

Table_insert(st, id, index, value) ==
    [st EXCEPT !.tables[id] = (index :> value) @@ st.tables[id]]

Table_get(st, id, index) ==
    IF index \in DOMAIN st.tables[id] THEN st.tables[id][index] ELSE Nil

----------------------------------------------------------------------------
(* value.rs: operators *)

ArithmeticOperations == {"Add", "Subtract", "Multiply", "Divide"}

\* the closures |a, b| a + b ... handed to execute_arithmetic_operation
number_operation(operation, a, b) ==
    CASE operation = "Add" -> f64_add(a, b)
      [] operation = "Subtract" -> f64_sub(a, b)
      [] operation = "Multiply" -> f64_mul(a, b)
      [] operation = "Divide" -> f64_div(a, b)

execute_arithmetic_operation(lhs, rhs, operation) ==
    CASE lhs.t = "Nil" -> LuaError("InvalidArithmetic", lhs)
      [] lhs.t = "Number" ->
           (CASE rhs.t = "Nil" -> LuaError("InvalidArithmetic", rhs)
              [] rhs.t = "Number" ->
                   Ok(Number(number_operation(operation, lhs.x, rhs.x)))
              [] rhs.t = "String" ->
                   Todo("Implement string, number operations")
              [] rhs.t \in {"Boolean", "Table", "Function", "NativeFunction"} ->
                   LuaError("InvalidArithmetic", rhs))
      [] lhs.t = "String" -> Todo("Implement string, string operations")
      [] lhs.t \in {"Boolean", "Table", "Function", "NativeFunction"} ->
           LuaError("InvalidArithmetic", lhs)

\* the closure |a, b| a == b handed to execute_logic_operation
logic_operation(operation, a, b) ==
    CASE operation = "Equals" -> f64_eq(a, b)

execute_logic_operation(lhs, rhs, operation) ==
    CASE lhs.t = "Nil" -> Nil
      [] lhs.t = "Number" ->
           (CASE rhs.t = "Number" ->
                   Boolean(logic_operation(operation, lhs.x, rhs.x))
              [] rhs.t \in {"Nil", "String", "Boolean", "Table", "Function",
                            "NativeFunction"} -> Nil)
      [] lhs.t \in {"String", "Boolean", "Table", "Function",
                    "NativeFunction"} -> Nil

----------------------------------------------------------------------------
(* Native functions the host registers with define (main.rs) *)

\* main.rs `print`: writes every argument, returns Nil
native_call(st, func, arguments) ==
    CASE func = "print" ->
           [st |-> [st EXCEPT !.out = st.out \o arguments], value |-> Nil]

----------------------------------------------------------------------------
(* f64 -> i32 and f64 -> String, as evaluate_index uses them *)

\* `n as i32` for an n with trunc(n) == n: the cast saturates
as_i32(a) ==
    IF a.d = 0 THEN (IF a.n > 0 THEN I32_MAX ELSE IF a.n < 0 THEN I32_MIN ELSE 0)
    ELSE IF a.exp > 0 THEN (IF a.n > 0 THEN I32_MAX ELSE I32_MIN)
    ELSE IF a.n > I32_MAX THEN I32_MAX
    ELSE IF a.n < I32_MIN THEN I32_MIN
    ELSE a.n

\* digits of r/d after the decimal point, at most k of them
RECURSIVE frac_digits(_, _, _)
frac_digits(r, d, k) ==
    IF r = 0 \/ k = 0 THEN ""
    ELSE ToString((r * 10) \div d) \o frac_digits((r * 10) % d, d, k - 1)

\* n.to_string() for a non-integral n
f64_to_string(a) ==
    IF is_nan(a) THEN "NaN"
    ELSE IF a.d = 0 THEN (IF a.n > 0 THEN "inf" ELSE "-inf")
    ELSE (IF a.n < 0 THEN "-" ELSE "")
         \o ToString((Abs(a.n) * 2^a.exp) \div a.d)
         \o (IF (Abs(a.n) * 2^a.exp) % a.d = 0 THEN ""
             ELSE "." \o frac_digits((Abs(a.n) * 2^a.exp) % a.d, a.d, 16))

----------------------------------------------------------------------------
(* The evaluator (interpreter/mod.rs)                                      *)
(* An expression returns [st, r]; a statement or body returns              *)
(* [st, scope, r], where r is Ok / OkNone / OkSome or the failure.         *)
(* A method calling a method of the interpreter, self.f(scope, x), is      *)
(* written self("f", <<st, scope, x>>).                                    *)

OkNone == [kind |-> "Ok", opt |-> <<>>]

OkSome(v) == [kind |-> "Ok", opt |-> <<v>>]

OkIndex(i) == [kind |-> "Ok", index |-> i]

OkValues(vs) == [kind |-> "Ok", values |-> vs]

ER(st, r) == [st |-> st, r |-> r]

SR(st, sc, r) == [st |-> st, scope |-> sc, r |-> r]

RECURSIVE self(_, _)

\* the match on `operation` in execute_expression: it has arms for the four
\* arithmetic operations and for Equals and none for the ordering
\* operations of ast::Operation
execute_binary(operation, lhs, rhs) ==
    CASE operation \in ArithmeticOperations ->
           execute_arithmetic_operation(lhs, rhs, operation)
      [] operation = "Equals" -> Ok(execute_logic_operation(lhs, rhs, operation))
      [] OTHER -> Todo("no match arm")

execute_expression(st, sc, expression) ==
    CASE expression.e = "Term" -> self("execute_term", <<st, sc, expression.term>>)
      [] expression.e = "Binary" ->
           LET l == self("execute_expression", <<st, sc, expression.lhs>>) IN
           IF l.r.kind # "Ok" THEN l ELSE
           LET r == self("execute_expression", <<l.st, sc, expression.rhs>>) IN
           IF r.r.kind # "Ok" THEN r ELSE
           ER(r.st, execute_binary(expression.operation, l.r.value, r.r.value))
      [] expression.e = "Function" ->
           ER(st, Ok(FunctionCapture(expression.parameters, expression.body, sc)))
      [] expression.e = "Call" ->
           self("execute_call", <<st, sc, expression.callee, expression.arguments>>)
      [] expression.e = "Dot" ->
           self("execute_dot_operation", <<st, sc, expression.obj, expression.name>>)
      [] expression.e = "Index" ->
           self("execute_index_operation", <<st, sc, expression.obj, expression.index>>)

\* execute_term reading a variable from the current scope only
execute_term_local_only(st, sc, term) ==
    CASE term.k = "Number" -> ER(st, Ok(Number(term.x)))
      [] term.k = "String" -> ER(st, Ok(String(term.str)))
      [] term.k = "Boolean" -> ER(st, Ok(Boolean(term.b)))
      [] term.k = "Variable" ->
           LET local == Scope_get(st, sc, term.name)
           IN  ER(st, Ok(IF local # <<>> THEN local[1] ELSE Nil))
      [] term.k = "Table" -> self("execute_construct_table", <<st, sc, term.items>>)

execute_term(st, sc, term) ==
    CASE term.k = "Number" -> ER(st, Ok(Number(term.x)))
      [] term.k = "String" -> ER(st, Ok(String(term.str)))
      [] term.k = "Boolean" -> ER(st, Ok(Boolean(term.b)))
      [] term.k = "Variable" ->
           LET local == Scope_get(st, sc, term.name)
               global == Scope_get(st, st.global, term.name)
           IN  ER(st, Ok(IF local # <<>> THEN local[1]
                         ELSE IF global # <<>> THEN global[1]
                         ELSE Nil))
      [] term.k = "Table" -> self("execute_construct_table", <<st, sc, term.items>>)

\* evaluate_index spelling a Number key as a Name also when it is integral
\* and an i32 holds it
evaluate_index_by_name(st, sc, index) ==
    LET i == self("execute_expression", <<st, sc, index>>) IN
    IF i.r.kind # "Ok" THEN i ELSE
    LET evaluated_index == i.r.value IN
    CASE evaluated_index.t = "Number" ->
           IF evaluated_index.x.exp > 0
           THEN ER(i.st, OkIndex(Index_Number(as_i32(evaluated_index.x))))
           ELSE ER(i.st, OkIndex(Index_Name(f64_to_string(evaluated_index.x))))
      [] evaluated_index.t = "String" ->
           ER(i.st, OkIndex(Index_Name(evaluated_index.str)))
      [] OTHER -> ER(i.st, Todo("Throw error"))

evaluate_index(st, sc, index) ==
    LET i == self("execute_expression", <<st, sc, index>>) IN
    IF i.r.kind # "Ok" THEN i ELSE
    LET evaluated_index == i.r.value IN
    CASE evaluated_index.t = "Number" ->
           IF f64_trunc(evaluated_index.x) = evaluated_index.x
           THEN ER(i.st, OkIndex(Index_Number(as_i32(evaluated_index.x))))
           ELSE ER(i.st, OkIndex(Index_Name(f64_to_string(evaluated_index.x))))
      [] evaluated_index.t = "String" ->
           ER(i.st, OkIndex(Index_Name(evaluated_index.str)))
      [] OTHER -> ER(i.st, Todo("Throw error"))

\* the loop of execute_construct_table giving an entry without a key its
\* position among all the entries
construct_items_by_position(st, sc, items, i, table, current_numeric_index) ==
    IF i > Len(items)
    THEN ER([st EXCEPT !.tables = Append(st.tables, table)],
            Ok(Table(Len(st.tables) + 1)))
    ELSE
    LET v == self("execute_expression", <<st, sc, items[i].expr>>) IN
    IF v.r.kind # "Ok" THEN v ELSE
    LET key == items[i].index IN
    IF key = <<>>
    THEN self("construct_items", <<v.st, sc, items, i + 1,
             (Index_Number(i) :> v.r.value) @@ table,
             current_numeric_index + 1>>)
    ELSE IF key[1].k = "Name"
    THEN self("construct_items", <<v.st, sc, items, i + 1,
             (Index_Name(key[1].name) :> v.r.value) @@ table,
             current_numeric_index>>)
    ELSE
    LET x == self("evaluate_index", <<v.st, sc, key[1].expr>>) IN
    IF x.r.kind # "Ok" THEN x ELSE
    self("construct_items", <<x.st, sc, items, i + 1,
        (x.r.index :> v.r.value) @@ table, current_numeric_index>>)

construct_items(st, sc, items, i, table, current_numeric_index) ==
    IF i > Len(items)
    THEN ER([st EXCEPT !.tables = Append(st.tables, table)],
            Ok(Table(Len(st.tables) + 1)))
    ELSE
    LET v == self("execute_expression", <<st, sc, items[i].expr>>) IN
    IF v.r.kind # "Ok" THEN v ELSE
    LET key == items[i].index IN
    IF key = <<>>
    THEN self("construct_items", <<v.st, sc, items, i + 1,
             (Index_Number(current_numeric_index) :> v.r.value) @@ table,
             current_numeric_index + 1>>)
    ELSE IF key[1].k = "Name"
    THEN self("construct_items", <<v.st, sc, items, i + 1,
             (Index_Name(key[1].name) :> v.r.value) @@ table,
             current_numeric_index>>)
    ELSE
    LET x == self("evaluate_index", <<v.st, sc, key[1].expr>>) IN
    IF x.r.kind # "Ok" THEN x ELSE
    self("construct_items", <<x.st, sc, items, i + 1,
        (x.r.index :> v.r.value) @@ table, current_numeric_index>>)

execute_construct_table(st, sc, items) ==
    self("construct_items", <<st, sc, items, 1, [x \in {} |-> Nil], 1>>)

execute_dot_operation(st, sc, obj, name) ==
    LET v == self("execute_expression", <<st, sc, obj>>) IN
    IF v.r.kind # "Ok" THEN v ELSE
    LET evaluated_value == v.r.value IN
    IF evaluated_value.t = "Table"
    THEN ER(v.st, Ok(Table_get(v.st, evaluated_value.id, Index_Name(name))))
    ELSE ER(v.st, LuaError("InvalidIndex", evaluated_value))

execute_index_operation(st, sc, obj, index) ==
    LET v == self("execute_expression", <<st, sc, obj>>) IN
    IF v.r.kind # "Ok" THEN v ELSE
    LET evaluated_value == v.r.value
        i == self("evaluate_index", <<v.st, sc, index>>)
    IN
    IF i.r.kind # "Ok" THEN i ELSE
    IF evaluated_value.t = "Table"
    THEN ER(i.st, Ok(Table_get(i.st, evaluated_value.id, i.r.index)))
    ELSE ER(i.st, LuaError("InvalidIndex", evaluated_value))

\* execute_call evaluating the arguments before it looks at the callee
execute_call_arguments_first(st, sc, callee, arguments) ==
    LET c == self("execute_expression", <<st, sc, callee>>) IN
    IF c.r.kind # "Ok" THEN c ELSE
    LET evaluated_callee == c.r.value
        a == self("collect_arguments", <<c.st, sc, arguments, 1, <<>>>>)
    IN
    CASE evaluated_callee.t = "NativeFunction" ->
           self("execute_native_call", <<c.st, sc, arguments, evaluated_callee.func>>)
      [] evaluated_callee.t = "Function" ->
           self("execute_function_call", <<c.st, sc, arguments, evaluated_callee>>)
      [] OTHER ->
           IF a.r.kind # "Ok" THEN a
           ELSE ER(a.st, LuaError("InvalidCall", evaluated_callee))

execute_call(st, sc, callee, arguments) ==
    LET c == self("execute_expression", <<st, sc, callee>>) IN
    IF c.r.kind # "Ok" THEN c ELSE
    LET evaluated_callee == c.r.value IN
    CASE evaluated_callee.t = "NativeFunction" ->
           self("execute_native_call", <<c.st, sc, arguments, evaluated_callee.func>>)
      [] evaluated_callee.t = "Function" ->
           self("execute_function_call", <<c.st, sc, arguments, evaluated_callee>>)
      [] OTHER -> ER(c.st, LuaError("InvalidCall", evaluated_callee))

\* arguments.iter().map(execute_expression).collect::<Result<Vec<_>>>():
\* left to right, stopping at the first failure
collect_arguments(st, sc, arguments, i, acc) ==
    IF i > Len(arguments) THEN ER(st, OkValues(acc)) ELSE
    LET a == self("execute_expression", <<st, sc, arguments[i]>>) IN
    IF a.r.kind # "Ok" THEN a ELSE
    self("collect_arguments", <<a.st, sc, arguments, i + 1, Append(acc, a.r.value)>>)

execute_native_call(st, sc, arguments, func) ==
    LET a == self("collect_arguments", <<st, sc, arguments, 1, <<>>>>) IN
    IF a.r.kind # "Ok" THEN a ELSE
    LET n == native_call(a.st, func, a.r.values) IN
    ER(n.st, Ok(n.value))

\* the loop over arguments.iter().zip(parameters): each argument is
\* evaluated in the caller's scope and put into function_scope at once
bind_parameters(st, sc, function_scope, arguments, parameters, i) ==
    IF i > Len(arguments) THEN SR(st, function_scope, OkNone) ELSE
    LET a == self("execute_expression", <<st, sc, arguments[i]>>) IN
    IF a.r.kind # "Ok" THEN SR(a.st, function_scope, a.r) ELSE
    LET p == Scope_put(a.st, function_scope, parameters[i], a.r.value) IN
    self("bind_parameters", <<p.st, sc, p.scope, arguments, parameters, i + 1>>)

\* execute_function_call running the body in a clone of the caller's scope
\* in place of the captured one
execute_function_call_dynamic(st, sc, arguments, function_capture) ==
    LET parameters == function_capture.parameters
        body == function_capture.body
    IN
    IF Len(parameters) # Len(arguments) THEN ER(st, Todo("Throw error")) ELSE
    LET b == self("bind_parameters", <<st, sc, sc, arguments, parameters, 1>>)
    IN
    IF b.r.kind # "Ok" THEN ER(b.st, b.r) ELSE
    LET x == self("execute_body", <<b.st, b.scope, body>>) IN
    IF x.r.kind # "Ok" THEN ER(x.st, x.r) ELSE
    ER(x.st, Ok(IF x.r.opt = <<>> THEN Nil ELSE x.r.opt[1]))

execute_function_call(st, sc, arguments, function_capture) ==
    LET parameters == function_capture.parameters
        body == function_capture.body
    IN
    IF Len(parameters) # Len(arguments) THEN ER(st, Todo("Throw error")) ELSE
    LET b == self("bind_parameters", <<st, sc, function_capture.capture, arguments,
                             parameters, 1>>)
    IN
    IF b.r.kind # "Ok" THEN ER(b.st, b.r) ELSE
    LET x == self("execute_body", <<b.st, b.scope, body>>) IN
    IF x.r.kind # "Ok" THEN ER(x.st, x.r) ELSE
    ER(x.st, Ok(IF x.r.opt = <<>> THEN Nil ELSE x.r.opt[1]))

\* the loop of execute_body going on after a statement gave a value
body_from_no_stop(st, sc, body, i) ==
    IF i > Len(body) THEN SR(st, sc, OkNone) ELSE
    LET x == self("execute_statement", <<st, sc, body[i]>>) IN
    IF x.r.kind # "Ok" THEN x ELSE
    self("body_from", <<x.st, x.scope, body, i + 1>>)

body_from(st, sc, body, i) ==
    IF i > Len(body) THEN SR(st, sc, OkNone) ELSE
    LET x == self("execute_statement", <<st, sc, body[i]>>) IN
    IF x.r.kind # "Ok" THEN x ELSE
    IF x.r.opt # <<>> THEN x ELSE
    self("body_from", <<x.st, x.scope, body, i + 1>>)

execute_body(st, sc, body) == self("body_from", <<st, sc, body, 1>>)

execute_function(st, sc, function) ==
    global_put(st, function.name,
               FunctionCapture(function.parameters, function.body, sc))

execute_statement(st, sc, statement) ==
    CASE statement.s = "Assignment" ->
           self("execute_assign", <<st, sc, statement.lhs, statement.rhs>>)
      [] statement.s = "Expression" ->
           LET x == self("execute_expression", <<st, sc, statement.expr>>) IN
           SR(x.st, sc, IF x.r.kind # "Ok" THEN x.r ELSE OkNone)
      [] statement.s = "Return" ->
           LET x == self("execute_expression", <<st, sc, statement.expr>>) IN
           SR(x.st, sc, IF x.r.kind # "Ok" THEN x.r ELSE OkSome(x.r.value))
      [] statement.s = "Local" ->
           self("execute_local", <<st, sc, statement.name, statement.expr>>)
      [] statement.s = "Function" ->
           SR(execute_function(st, sc, statement.function), sc, OkNone)
      [] statement.s = "If" ->
           self("execute_if", <<st, sc, statement.condition, statement.then,
                      statement.elseif, statement.else_>>)
      [] statement.s = "NumericFor" ->
           self("execute_numeric_for", <<st, sc, statement.name, statement.start,
                               statement.end, statement.step, statement.body>>)

\* execute_local binding in the global scope instead of the current one
execute_local_global(st, sc, name, value) ==
    LET x == self("execute_expression", <<st, sc, value>>) IN
    IF x.r.kind # "Ok" THEN SR(x.st, sc, x.r) ELSE
    SR(global_put(x.st, name, x.r.value), sc, OkNone)

execute_local(st, sc, name, value) ==
    LET x == self("execute_expression", <<st, sc, value>>) IN
    IF x.r.kind # "Ok" THEN SR(x.st, sc, x.r) ELSE
    LET p == Scope_put(x.st, sc, name, x.r.value) IN
    SR(p.st, p.scope, OkNone)

\* execute_assign putting a bare variable into the current scope whether
\* or not the name is bound there
execute_assign_current_scope(st, sc, lhs, rhs) ==
    LET x == self("execute_expression", <<st, sc, rhs>>) IN
    IF x.r.kind # "Ok" THEN SR(x.st, sc, x.r) ELSE
    LET p == Scope_put(x.st, sc, lhs.term.name, x.r.value)
    IN  SR(p.st, p.scope, OkNone)

execute_assign(st, sc, lhs, rhs) ==
    LET x == self("execute_expression", <<st, sc, rhs>>) IN
    IF x.r.kind # "Ok" THEN SR(x.st, sc, x.r) ELSE
    LET evaluated_value == x.r.value IN
    CASE lhs.e = "Term" /\ lhs.term.k = "Variable" ->
           IF Scope_has(sc, lhs.term.name)
           THEN LET p == Scope_put(x.st, sc, lhs.term.name, evaluated_value)
                IN  SR(p.st, p.scope, OkNone)
           ELSE SR(global_put(x.st, lhs.term.name, evaluated_value), sc, OkNone)
      [] lhs.e = "Dot" ->
           LET t == self("execute_expression", <<x.st, sc, lhs.obj>>) IN
           IF t.r.kind # "Ok" THEN SR(t.st, sc, t.r) ELSE
           IF t.r.value.t = "Table"
           THEN SR(Table_insert(t.st, t.r.value.id, Index_Name(lhs.name),
                                evaluated_value), sc, OkNone)
           ELSE SR(t.st, sc, LuaError("InvalidIndex", t.r.value))
      [] lhs.e = "Index" ->
           LET t == self("execute_expression", <<x.st, sc, lhs.obj>>) IN
           IF t.r.kind # "Ok" THEN SR(t.st, sc, t.r) ELSE
           IF t.r.value.t = "Table"
           THEN LET i == self("evaluate_index", <<t.st, sc, lhs.index>>) IN
                IF i.r.kind # "Ok" THEN SR(i.st, sc, i.r) ELSE
                SR(Table_insert(i.st, t.r.value.id, i.r.index, evaluated_value),
                   sc, OkNone)
           ELSE SR(t.st, sc, LuaError("InvalidIndex", t.r.value))
      [] OTHER -> SR(x.st, sc, Todo("Throw error"))

elseif_from(st, sc, elseif, else_, i) ==
    IF i > Len(elseif)
    THEN (IF else_ = <<>> THEN SR(st, sc, OkNone)
          ELSE self("execute_body", <<st, sc, else_[1]>>))
    ELSE
    LET c == self("execute_expression", <<st, sc, elseif[i].condition>>) IN
    IF c.r.kind # "Ok" THEN SR(c.st, sc, c.r) ELSE
    IF is_truthy(c.r.value) THEN self("execute_body", <<c.st, sc, elseif[i].then>>)
    ELSE self("elseif_from", <<c.st, sc, elseif, else_, i + 1>>)

\* execute_if running the block of a truthy primary condition and dropping
\* the value the block returned
execute_if_drop_value(st, sc, condition, then, elseif, else_) ==
    LET c == self("execute_expression", <<st, sc, condition>>) IN
    IF c.r.kind # "Ok" THEN SR(c.st, sc, c.r) ELSE
    IF is_truthy(c.r.value)
    THEN LET x == self("execute_body", <<c.st, sc, then>>) IN
         SR(x.st, x.scope, IF x.r.kind # "Ok" THEN x.r ELSE OkNone)
    ELSE self("elseif_from", <<c.st, sc, elseif, else_, 1>>)

execute_if(st, sc, condition, then, elseif, else_) ==
    LET c == self("execute_expression", <<st, sc, condition>>) IN
    IF c.r.kind # "Ok" THEN SR(c.st, sc, c.r) ELSE
    IF is_truthy(c.r.value) THEN self("execute_body", <<c.st, sc, then>>)
    ELSE self("elseif_from", <<c.st, sc, elseif, else_, 1>>)

\* the while loop with `value < limit` for `value <= limit`
for_loop_exclusive(st, sc, name, value, limit, step, body, iter) ==
    IF ~(f64_le(value, limit) /\ ~f64_eq(value, limit)) THEN SR(st, sc, OkNone) ELSE
    IF iter >= MaxIter THEN SR(st, sc, Diverge) ELSE
    LET p == Scope_put(st, sc, name, Number(value))
        x == self("execute_body", <<p.st, p.scope, body>>)
    IN
    IF x.r.kind # "Ok" THEN x ELSE
    IF x.r.opt # <<>> THEN x ELSE
    self("for_loop", <<x.st, x.scope, name, f64_add(value, step), limit, step, body,
             iter + 1>>)

\* the while loop of execute_numeric_for; iter counts the iterations begun
for_loop(st, sc, name, value, limit, step, body, iter) ==
    IF ~f64_le(value, limit) THEN SR(st, sc, OkNone) ELSE
    IF iter >= MaxIter THEN SR(st, sc, Diverge) ELSE
    LET p == Scope_put(st, sc, name, Number(value))
        x == self("execute_body", <<p.st, p.scope, body>>)
    IN
    IF x.r.kind # "Ok" THEN x ELSE
    IF x.r.opt # <<>> THEN x ELSE
    self("for_loop", <<x.st, x.scope, name, f64_add(value, step), limit, step, body,
             iter + 1>>)

\* execute_numeric_for taking a step that is not a Number for the default 1.0
execute_numeric_for_default_step(st, sc, name, start, end, step, body) ==
    LET s == self("execute_expression", <<st, sc, start>>) IN
    IF s.r.kind # "Ok" THEN SR(s.st, sc, s.r) ELSE
    IF s.r.value.t # "Number"
    THEN SR(s.st, sc, LuaError("BadForInitialValue", s.r.value)) ELSE
    LET l == self("execute_expression", <<s.st, sc, end>>) IN
    IF l.r.kind # "Ok" THEN SR(l.st, sc, l.r) ELSE
    IF l.r.value.t # "Number"
    THEN SR(l.st, sc, LuaError("BadForLimit", l.r.value)) ELSE
    IF step = <<>>
    THEN self("for_loop", <<l.st, sc, name, s.r.value.x, l.r.value.x, F64(1, 1), body, 0>>)
    ELSE
    LET k == self("execute_expression", <<l.st, sc, step[1]>>) IN
    IF k.r.kind # "Ok" THEN SR(k.st, sc, k.r) ELSE
    self("for_loop", <<k.st, sc, name, s.r.value.x, l.r.value.x,
             IF k.r.value.t # "Number" THEN F64(1, 1) ELSE k.r.value.x, body, 0>>)

execute_numeric_for(st, sc, name, start, end, step, body) ==
    LET s == self("execute_expression", <<st, sc, start>>) IN
    IF s.r.kind # "Ok" THEN SR(s.st, sc, s.r) ELSE
    IF s.r.value.t # "Number"
    THEN SR(s.st, sc, LuaError("BadForInitialValue", s.r.value)) ELSE
    LET l == self("execute_expression", <<s.st, sc, end>>) IN
    IF l.r.kind # "Ok" THEN SR(l.st, sc, l.r) ELSE
    IF l.r.value.t # "Number"
    THEN SR(l.st, sc, LuaError("BadForLimit", l.r.value)) ELSE
    IF step = <<>>
    THEN self("for_loop", <<l.st, sc, name, s.r.value.x, l.r.value.x, F64(1, 1), body, 0>>)
    ELSE
    LET k == self("execute_expression", <<l.st, sc, step[1]>>) IN
    IF k.r.kind # "Ok" THEN SR(k.st, sc, k.r) ELSE
    IF k.r.value.t # "Number"
    THEN SR(k.st, sc, LuaError("BadForStep", k.r.value)) ELSE
    self("for_loop", <<k.st, sc, name, s.r.value.x, l.r.value.x, k.r.value.x, body, 0>>)

\* a method call on the interpreter: self.<f>(<a>)
self(f, a) ==
    CASE f = "execute_expression" -> execute_expression(a[1], a[2], a[3])
      [] f = "execute_term" -> execute_term(a[1], a[2], a[3])
      [] f = "execute_construct_table" -> execute_construct_table(a[1], a[2], a[3])
      [] f = "construct_items" -> construct_items(a[1], a[2], a[3], a[4], a[5], a[6])
      [] f = "evaluate_index" -> evaluate_index(a[1], a[2], a[3])
      [] f = "execute_dot_operation" -> execute_dot_operation(a[1], a[2], a[3], a[4])
      [] f = "execute_index_operation" -> execute_index_operation(a[1], a[2], a[3], a[4])
      [] f = "execute_call" -> execute_call(a[1], a[2], a[3], a[4])
      [] f = "execute_native_call" -> execute_native_call(a[1], a[2], a[3], a[4])
      [] f = "collect_arguments" -> collect_arguments(a[1], a[2], a[3], a[4], a[5])
      [] f = "execute_function_call" -> execute_function_call(a[1], a[2], a[3], a[4])
      [] f = "bind_parameters" -> bind_parameters(a[1], a[2], a[3], a[4], a[5], a[6])
      [] f = "execute_body" -> execute_body(a[1], a[2], a[3])
      [] f = "body_from" -> body_from(a[1], a[2], a[3], a[4])
      [] f = "execute_statement" -> execute_statement(a[1], a[2], a[3])
      [] f = "execute_assign" -> execute_assign(a[1], a[2], a[3], a[4])
      [] f = "execute_local" -> execute_local(a[1], a[2], a[3], a[4])
      [] f = "execute_if" -> execute_if(a[1], a[2], a[3], a[4], a[5], a[6])
      [] f = "elseif_from" -> elseif_from(a[1], a[2], a[3], a[4], a[5])
      [] f = "execute_numeric_for" -> execute_numeric_for(a[1], a[2], a[3], a[4], a[5], a[6], a[7])
      [] f = "for_loop" -> for_loop(a[1], a[2], a[3], a[4], a[5], a[6], a[7], a[8])

----------------------------------------------------------------------------
(* ast.rs: constructors of the syntax tree *)

Num(n) == [e |-> "Term", term |-> [k |-> "Number", x |-> F64(n, 1)]]

Frac(n, d) == [e |-> "Term", term |-> [k |-> "Number", x |-> F64(n, d)]]

\* the literal of the integer 2^exp
Pow2(exp) == [e |-> "Term", term |-> [k |-> "Number", x |-> Scaled(1, 1, exp)]]

Str(s) == [e |-> "Term", term |-> [k |-> "String", str |-> s]]

Bool(b) == [e |-> "Term", term |-> [k |-> "Boolean", b |-> b]]

Var(name) == [e |-> "Term", term |-> [k |-> "Variable", name |-> name]]

TableOf(items) == [e |-> "Term", term |-> [k |-> "Table", items |-> items]]

Binary(lhs, operation, rhs) ==
    [e |-> "Binary", lhs |-> lhs, operation |-> operation, rhs |-> rhs]

Call(callee, arguments) ==
    [e |-> "Call", callee |-> callee, arguments |-> arguments]

Dot(obj, name) == [e |-> "Dot", obj |-> obj, name |-> name]

Index(obj, index) == [e |-> "Index", obj |-> obj, index |-> index]

Fn(parameters, body) ==
    [e |-> "Function", parameters |-> parameters, body |-> body]

Assignment(lhs, rhs) == [s |-> "Assignment", lhs |-> lhs, rhs |-> rhs]

Return(expr) == [s |-> "Return", expr |-> expr]

Local(name, expr) == [s |-> "Local", name |-> name, expr |-> expr]

ExprStmt(expr) == [s |-> "Expression", expr |-> expr]

FunctionDecl(name, parameters, body) ==
    [s |-> "Function",
     function |-> [name |-> name, parameters |-> parameters, body |-> body]]

If(condition, then, elseif, else_) ==
    [s |-> "If", condition |-> condition, then |-> then, elseif |-> elseif,
     else_ |-> else_]

NumericFor(name, start, end, step, body) ==
    [s |-> "NumericFor", name |-> name, start |-> start, end |-> end,
     step |-> step, body |-> body]

----------------------------------------------------------------------------
(* The interpreter instance and its host *)

NoResult == [kind |-> "None"]

\* the second Interpreter before the host makes it
NoInstance ==
    [made |-> FALSE, global |-> EmptyScope, result |-> NoResult, calls |-> 0]

\* Interpreter::new() sharing the cells of the global scope of the
\* Interpreter that exists already
SharedInstance ==
    [made |-> TRUE, global |-> global_scope, result |-> NoResult, calls |-> 0]

\* Interpreter::new(): an empty global scope; no call has returned
NewInstance ==
    [made |-> TRUE, global |-> EmptyScope, result |-> NoResult, calls |-> 0]

\* a process with nothing on its heap and one new Interpreter
NewProcess ==
    [cells |-> <<>>, tables |-> <<>>, global |-> EmptyScope, out |-> <<>>,
     result |-> NoResult]

\* Interpreter::new(); nothing has been executed
Init ==
    /\ global_scope = EmptyScope
    /\ cells = <<>>
    /\ tables = <<>>
    /\ out = <<>>
    /\ program = <<>>
    /\ result = NoResult
    /\ scope = EmptyScope
    /\ calls = 0
    /\ other = NoInstance
    /\ solo = NewProcess

\* a todo!() aborts the process and a loop that never ends never returns:
\* no later call reaches the instance
Alive == result.kind \notin {"Panic", "Diverge"}

\* Interpreter::define(name, func)
define(name, func) ==
    /\ Alive
    /\ LET st == global_put([cells |-> cells, tables |-> tables,
                             global |-> global_scope, out |-> out],
                            name, NativeFunction(func))
       IN  /\ global_scope' = st.global
           /\ cells' = st.cells
    /\ UNCHANGED <<tables, out, program, result, scope, calls, other, solo>>

\* Interpreter::execute(source), source parsing to the program p
execute(p) ==
    /\ Alive
    /\ calls < MaxCalls
    /\ LET x == execute_body([cells |-> cells, tables |-> tables,
                              global |-> global_scope, out |-> out],
                             EmptyScope, p)
       IN  /\ global_scope' = x.st.global
           /\ cells' = x.st.cells
           /\ tables' = x.st.tables
           /\ out' = x.st.out
           /\ scope' = x.scope
           /\ result' = IF x.r.kind # "Ok" THEN x.r
                        ELSE Ok(IF x.r.opt = <<>> THEN Nil ELSE x.r.opt[1])
    /\ program' = p
    /\ calls' = calls + 1
    /\ UNCHANGED <<other, solo>>

\* test.rs run_test_script: a new interpreter executes one script
run_test_script(p) == calls = 0 /\ execute(p)

\* main.rs: the host registers `print` before it executes anything
DefinePrint == calls = 0 /\ define("print", "print")

----------------------------------------------------------------------------
(* Scripts about locals and captures (test.rs test_locals, test_captures) *)

\* most calls of the counter closure inside one script
MaxCount == 4

\* the Value a literal expression evaluates to
LiteralValue(expr) ==
    CASE expr.term.k = "Number" -> Number(expr.term.x)
      [] expr.term.k = "String" -> String(expr.term.str)
      [] expr.term.k = "Boolean" -> Boolean(expr.term.b)

\* function foo() local l = 0 return function() l = l + 1 return l end end
CounterDecl ==
    FunctionDecl("foo", <<>>,
        <<Local("l", Num(0)),
          Return(Fn(<<>>, <<Assignment(Var("l"), Binary(Var("l"), "Add", Num(1))),
                           Return(Var("l"))>>))>>)

\* function foo() ... end  x = foo()
CounterSetup == <<CounterDecl, Assignment(Var("x"), Call(Var("foo"), <<>>))>>

\* return x()
CounterCall == <<Return(Call(Var("x"), <<>>))>>

\* function foo() ... end  x = foo()  x() ... x()  return x(): n calls
CounterProg(n) ==
    CounterSetup
    \o [i \in 1..(n - 1) |-> ExprStmt(Call(Var("x"), <<>>))]
    \o CounterCall

LocalNames == {"l", "m"}

LocalValues == {Num(21), Str("a")}

\* function x() local <name> = v return <name> end
LocalDecl(name, v) ==
    FunctionDecl("x", <<>>, <<Local(name, v), Return(Var(name))>>)

\* function x() ... end  x()  return <name>
LeakProg(name, v) ==
    <<LocalDecl(name, v), ExprStmt(Call(Var("x"), <<>>)), Return(Var(name))>>

\* function x() ... end  return x()
InsideProg(name, v) == <<LocalDecl(name, v), Return(Call(Var("x"), <<>>))>>

\* <name> = v
GlobalProg(name, v) == <<Assignment(Var(name), v)>>

ExecuteCounterSetup == execute(CounterSetup)

ExecuteCounterCall == execute(CounterCall)

CounterProgs == {CounterProg(n) : n \in 1..MaxCount}

LeakProgs == {LeakProg(name, v) : name \in LocalNames, v \in LocalValues}

InsideProgs == {InsideProg(name, v) : name \in LocalNames, v \in LocalValues}

GlobalProgs == {GlobalProg(name, v) : name \in LocalNames, v \in LocalValues}

ExecuteCounterProg == \E p \in CounterProgs : execute(p)

ExecuteLeakProg == \E p \in LeakProgs : execute(p)

ExecuteInsideProg == \E p \in InsideProgs : execute(p)

ExecuteGlobalProg == \E p \in GlobalProgs : execute(p)

NextClosure ==
    \/ ExecuteCounterSetup
    \/ ExecuteCounterCall
    \/ ExecuteCounterProg
    \/ ExecuteLeakProg
    \/ ExecuteInsideProg
    \/ ExecuteGlobalProg

SpecClosure == Init /\ [][NextClosure]_vars

\* the closure foo returns, over the cell id
IsCounter(v) ==
    /\ v.t = "Function"
    /\ v.parameters = <<>>
    /\ v.body = CounterDecl.function.body[2].expr.body
    /\ Scope_has(v.capture, "l")

\* the global x holds a counter closure whose cell holds the Number n
CounterAt(n) ==
    /\ Scope_has(global_scope, "x")
    /\ IsCounter(cells[global_scope["x"]])
    /\ cells[cells[global_scope["x"]].capture["l"]] = Number(F64(n, 1))

\* C1: the n-th call of the counter closure returns n: a script that makes
\* the closure and calls it n times ends in n; making the closure leaves its
\* cell at 0, and a call of a closure whose cell is at n returns n + 1 and
\* leaves the cell of this same closure at n + 1.
C1_CounterCounts ==
    [][calls' = calls + 1 =>
        /\ \A n \in 1..MaxCount :
              program' = CounterProg(n) => result' = Ok(Number(F64(n, 1)))
        /\ program' = CounterSetup => CounterAt(0)'
        /\ \A n \in 0..MaxCalls :
              (program' = CounterCall /\ CounterAt(n))
                  => /\ result' = Ok(Number(F64(n + 1, 1)))
                     /\ CounterAt(n + 1)'
                     /\ cells'[global_scope'["x"]] = cells[global_scope["x"]]]_vars

C1_Witness ==
    /\ program = CounterCall
    /\ calls = 3
    /\ CounterAt(2)
    /\ result = Ok(Number(F64(2, 1)))

\* C2: a local declared inside a function does not leak to the caller: with
\* the name bound nowhere before, the caller reads Nil after the call and
\* the function reads the value.
C2_LocalDoesNotLeak ==
    [][\A name \in LocalNames, v \in LocalValues :
        (calls' = calls + 1 /\ ~Scope_has(global_scope, name)) =>
            /\ program' = LeakProg(name, v) => result' = Ok(Nil)
            /\ program' = InsideProg(name, v) => result' = Ok(LiteralValue(v))]_vars

C2_Witness ==
    \E name \in LocalNames, v \in LocalValues :
        /\ program = LeakProg(name, v)
        /\ ~Scope_has(global_scope, name)
        /\ result = Ok(Nil)

----------------------------------------------------------------------------
(* One binary operation per script (test.rs test_arithmetic_error) *)

\* the comparison operations of ast::Operation
ComparisonOperations ==
    {"Equals", "GraterThan", "LessThan", "GraterThanEquals", "LessThanEquals"}

\* operand expressions, one or more of every Value variant:
\* nil 0 1 2 0.5 "a" true false {} function() end print
Operands ==
    {Var("nil"), Num(0), Num(1), Num(2), Frac(1, 2), Str("a"), Bool(TRUE),
     Bool(FALSE), TableOf(<<>>), Fn(<<>>, <<>>), Var("print")}

\* the Value an operand has when it is the first thing a new interpreter
\* evaluates
OperandValue(expr) ==
    CASE expr = Var("nil") -> Nil
      [] expr = Var("print") ->
           IF Scope_has(global_scope, "print")
           THEN cells[global_scope["print"]] ELSE Nil
      [] expr = TableOf(<<>>) -> Table(1)
      [] expr = Fn(<<>>, <<>>) -> FunctionCapture(<<>>, <<>>, EmptyScope)
      [] OTHER -> LiteralValue(expr)

\* return a <operation> b
BinaryProg(a, operation, b) == <<Return(Binary(a, operation, b))>>

ArithmeticProgs ==
    {BinaryProg(a, operation, b) :
        a \in Operands, b \in Operands, operation \in ArithmeticOperations}

ComparisonProgs ==
    {BinaryProg(a, operation, b) :
        a \in Operands, b \in Operands, operation \in ComparisonOperations}

RunArithmetic == \E p \in ArithmeticProgs : run_test_script(p)

RunComparison == \E p \in ComparisonProgs : run_test_script(p)

NextOps == DefinePrint \/ RunArithmetic \/ RunComparison

SpecOps == Init /\ [][NextOps]_vars

\* C3: every arithmetic operation with a non-Number operand returns
\* InvalidArithmetic carrying that operand (the left one when both are
\* non-Numbers), and never aborts.
C3_TypedArithmeticError ==
    \A a \in Operands, b \in Operands, operation \in ArithmeticOperations :
        program = BinaryProg(a, operation, b) =>
            LET va == OperandValue(a)
                vb == OperandValue(b)
            IN  /\ va.t # "Number" => result = LuaError("InvalidArithmetic", va)
                /\ (va.t = "Number" /\ vb.t # "Number")
                      => result = LuaError("InvalidArithmetic", vb)

\* the numeric comparison an operation stands for
Compare(operation, a, b) ==
    CASE operation = "Equals" -> a.n * b.d = b.n * a.d
      [] operation = "GraterThan" -> a.n * b.d > b.n * a.d
      [] operation = "LessThan" -> a.n * b.d < b.n * a.d
      [] operation = "GraterThanEquals" -> a.n * b.d >= b.n * a.d
      [] operation = "LessThanEquals" -> a.n * b.d <= b.n * a.d

\* C10: Equals and the ordering operators yield the Boolean of the numeric
\* comparison on two Numbers and Nil on any other pair of operands, and
\* never an error.
C10_PermissiveComparison ==
    \A a \in Operands, b \in Operands, operation \in ComparisonOperations :
        program = BinaryProg(a, operation, b) =>
            LET va == OperandValue(a)
                vb == OperandValue(b)
            IN  IF va.t = "Number" /\ vb.t = "Number"
                THEN result = Ok(Boolean(Compare(operation, va.x, vb.x)))
                ELSE result = Ok(Nil)

----------------------------------------------------------------------------
(* One index operation per script (test.rs test_index_error) *)

\* return <obj>.x
DotRead(obj) == <<Return(Dot(obj, "x"))>>

\* return <obj>[<key>]
IndexRead(obj, key) == <<Return(Index(obj, key))>>

\* <obj>.x = 1
DotWrite(obj) == <<Assignment(Dot(obj, "x"), Num(1))>>

\* <obj>[<key>] = 1
IndexWrite(obj, key) == <<Assignment(Index(obj, key), Num(1))>>

\* return {[<key>] = 1}
ConstructProg(key) ==
    <<Return(TableOf(<<[index |-> <<[k |-> "Value", expr |-> key]>>,
                        expr |-> Num(1)]>>))>>

DotReads == {DotRead(obj) : obj \in Operands}

IndexReads == {IndexRead(obj, key) : obj \in Operands, key \in Operands}

DotWrites == {DotWrite(obj) : obj \in Operands}

IndexWrites == {IndexWrite(obj, key) : obj \in Operands, key \in Operands}

ConstructProgs == {ConstructProg(key) : key \in Operands}

RunDotRead == \E p \in DotReads : run_test_script(p)

RunIndexRead == \E p \in IndexReads : run_test_script(p)

RunDotWrite == \E p \in DotWrites : run_test_script(p)

RunIndexWrite == \E p \in IndexWrites : run_test_script(p)

RunConstruct == \E p \in ConstructProgs : run_test_script(p)

NextIndex ==
    \/ DefinePrint
    \/ RunDotRead
    \/ RunIndexRead
    \/ RunDotWrite
    \/ RunIndexWrite
    \/ RunConstruct

SpecIndex == Init /\ [][NextIndex]_vars

\* C4: indexing a value that is not a Table through Dot or Index, reading
\* or assigning, returns InvalidIndex carrying that value, whatever the key
\* evaluates to.
C4_InvalidIndexOfNonTable ==
    \A obj \in Operands, key \in Operands :
        (/\ OperandValue(obj).t # "Table"
         /\ program \in {DotRead(obj), IndexRead(obj, key), DotWrite(obj),
                         IndexWrite(obj, key)})
            => result = LuaError("InvalidIndex", OperandValue(obj))

\* C5: a key that is neither a Number nor a String, in an Index read, an
\* Index assignment or a table constructor, returns the typed error
\* InvalidIndex and does not abort the evaluator.
C5_InvalidIndexOfBadKey ==
    \A obj \in Operands, key \in Operands :
        (/\ OperandValue(key).t \notin {"Number", "String"}
         /\ program \in {IndexRead(obj, key), IndexWrite(obj, key),
                         ConstructProg(key)})
            => result.kind = "Err" /\ result.error = "InvalidIndex"

----------------------------------------------------------------------------
(* One call per script (test.rs test_call_error) *)

\* most arguments of the call
MaxArgs == 2

\* function f() g = 1 return 1 end
SideEffectDecl ==
    FunctionDecl("f", <<>>, <<Assignment(Var("g"), Num(1)), Return(Num(1))>>)

\* argument expressions: f() binds the global g, print(1) writes, 1 does
\* nothing
ArgExprs == {Call(Var("f"), <<>>), Call(Var("print"), <<Num(1)>>), Num(1)}

ArgLists == UNION {[1..k -> ArgExprs] : k \in 0..MaxArgs}

Callees == Operands \cup {Var("f")}

\* function f() ... end  return <callee>(<arguments>)
CallProg(callee, arguments) ==
    <<SideEffectDecl, Return(Call(callee, arguments))>>

CallProgs ==
    {CallProg(callee, arguments) : callee \in Callees, arguments \in ArgLists}

RunCall == \E p \in CallProgs : run_test_script(p)

NextCall == DefinePrint \/ RunCall

SpecCall == Init /\ [][NextCall]_vars

\* C6: calling a value that is neither a Function nor a NativeFunction
\* returns InvalidCall carrying that value, and no argument expression has
\* been evaluated: g is not bound and nothing was printed.
C6_InvalidCallBeforeArguments ==
    \A callee \in Operands, arguments \in ArgLists :
        (/\ program = CallProg(callee, arguments)
         /\ OperandValue(callee).t \notin {"Function", "NativeFunction"})
            => /\ result = LuaError("InvalidCall", OperandValue(callee))
               /\ ~Scope_has(global_scope, "g")
               /\ out = <<>>

C6_Witness ==
    /\ program = CallProg(Bool(TRUE), <<Call(Var("f"), <<>>),
                                        Call(Var("print"), <<Num(1)>>)>>)
    /\ Scope_has(global_scope, "print")
    /\ result = LuaError("InvalidCall", Boolean(TRUE))

----------------------------------------------------------------------------
(* One numeric for per script (test.rs test_numeric_for) *)

\* clause expressions: the operands and 3 10 -1
ForClauses == Operands \cup {Num(3), Num(10), Num(-1)}

\* the step clause is optional
ForSteps == {<<>>} \cup {<<k>> : k \in ForClauses}

\* print(i)
ForBody == <<ExprStmt(Call(Var("print"), <<Var("i")>>))>>

\* for i = <start>, <end> [, <step>] do print(i) end
ForProg(start, end, step) == <<NumericFor("i", start, end, step, ForBody)>>

ForProgs ==
    {ForProg(start, end, step) :
        start \in ForClauses, end \in ForClauses, step \in ForSteps}

RunFor == \E p \in ForProgs : run_test_script(p)

NextFor == DefinePrint \/ RunFor

SpecFor == Init /\ [][NextFor]_vars

IsNumber(expr) == OperandValue(expr).t = "Number"

\* the last script was made of one numeric for
IsForProg == Len(program) = 1 /\ program[1].s = "NumericFor"

\* C7: a non-Number start, limit or step returns BadForInitialValue,
\* BadForLimit or BadForStep carrying the value, the first such clause in
\* the order start, limit, step deciding; the body has not run and the loop
\* variable is bound nowhere.
C7_BadForClause ==
    IsForProg =>
    LET start == program[1].start
        end == program[1].end
        step == program[1].step
    IN
        (/\ program = ForProg(start, end, step)
         /\ ~(IsNumber(start) /\ IsNumber(end)
              /\ (step # <<>> => IsNumber(step[1]))))
            => /\ result =
                    IF ~IsNumber(start)
                    THEN LuaError("BadForInitialValue", OperandValue(start))
                    ELSE IF ~IsNumber(end)
                    THEN LuaError("BadForLimit", OperandValue(end))
                    ELSE LuaError("BadForStep", OperandValue(step[1]))
               /\ out = <<>>
               /\ ~Scope_has(scope, "i")
               /\ ~Scope_has(global_scope, "i")

C7_Witness ==
    /\ program = ForProg(Num(0), Var("nil"), <<Bool(TRUE)>>)
    /\ Scope_has(global_scope, "print")
    /\ result = LuaError("BadForLimit", Nil)

\* the values s, s+k, s+2k, ... that are <= l, in ascending order, for k > 0
Visits(s, l, k) ==
    LET D == s.d * l.d * k.d
        S == s.n * l.d * k.d
        L == l.n * s.d * k.d
        K == k.n * s.d * l.d
        N == IF S > L THEN 0 ELSE ((L - S) \div K) + 1
    IN  [j \in 1..N |-> Number(F64(S + (j - 1) * K, D))]

\* C8: with Number clauses and a positive step (1 when omitted) the body
\* runs once for each of s, s+k, s+2k, ... <= l, in ascending order, seeing
\* the loop variable bound to that value; with s > l it runs zero times
\* whatever the step.
C8_AscendingVisits ==
    IsForProg =>
    LET start == program[1].start
        end == program[1].end
        step == program[1].step
    IN
        (/\ program = ForProg(start, end, step)
         /\ Scope_has(global_scope, "print")
         /\ IsNumber(start) /\ IsNumber(end)
         /\ (step # <<>> => IsNumber(step[1])))
            => LET s == OperandValue(start).x
                   l == OperandValue(end).x
                   k == IF step = <<>> THEN F64(1, 1) ELSE OperandValue(step[1]).x
               IN  /\ k.n > 0 => (out = Visits(s, l, k) /\ result = Ok(Nil))
                   /\ s.n * l.d > l.n * s.d => (out = <<>> /\ result = Ok(Nil))

C8_Witness ==
    /\ program = ForProg(Num(0), Num(10), <<Num(3)>>)
    /\ out = <<Number(F64(0, 1)), Number(F64(3, 1)), Number(F64(6, 1)),
               Number(F64(9, 1))>>

----------------------------------------------------------------------------
(* One if per script (test.rs test_if) *)

\* most conditions of the if: the primary one and the elseifs
MaxConds == 3

\* values of the conditions: nil false true 0 "a" {}
CondValues ==
    {Var("nil"), Bool(FALSE), Bool(TRUE), Num(0), Str("a"), TableOf(<<>>)}

\* function c(n, v) print(n) return v end
CondDecl ==
    FunctionDecl("c", <<"n", "v">>,
        <<ExprStmt(Call(Var("print"), <<Var("n")>>)), Return(Var("v"))>>)

\* the j-th condition c(j, v): prints j and has the value of v
Cond(j, v) == Call(Var("c"), <<Num(j), v>>)

\* the j-th block (0 for the else block): print(10 + j) return 10 + j
Block(j) ==
    <<ExprStmt(Call(Var("print"), <<Num(10 + j)>>)), Return(Num(10 + j))>>

CondLists == UNION {[1..n -> CondValues] : n \in 1..MaxConds}

\* function c(n, v) ... end
\* if c(1, v1) then <1> elseif c(2, v2) then <2> ... [else <0>] end
\* return 99
IfProg(vs, has_else) ==
    <<CondDecl,
      If(Cond(1, vs[1]), Block(1),
         [j \in 1..(Len(vs) - 1) |->
              [condition |-> Cond(j + 1, vs[j + 1]), then |-> Block(j + 1)]],
         IF has_else THEN <<Block(0)>> ELSE <<>>),
      Return(Num(99))>>

IfProgs == {IfProg(vs, has_else) : vs \in CondLists, has_else \in BOOLEAN}

RunIf == \E p \in IfProgs : run_test_script(p)

NextIf == DefinePrint \/ RunIf

SpecIf == Init /\ [][NextIf]_vars

\* only nil and false are falsy
Truthy(expr) == expr \notin {Var("nil"), Bool(FALSE)}

\* the last script was a declaration, an if and a return
IsIfProg == Len(program) = 3 /\ program[2].s = "If"

Nums(ns) == [j \in 1..Len(ns) |-> Number(F64(ns[j], 1))]

\* C9: an If runs at most one block, that of the first truthy condition in
\* the order primary, elseifs; later conditions are not evaluated; the else
\* block runs only when no condition is truthy; with neither, the statement
\* gives no value and no error and the script goes on.
C9_FirstTruthyBranch ==
    IsIfProg =>
    LET vs == <<program[2].condition.arguments[2]>>
              \o [j \in 1..Len(program[2].elseif) |->
                     program[2].elseif[j].condition.arguments[2]]
        has_else == program[2].else_ # <<>>
    IN
        (program = IfProg(vs, has_else) /\ Scope_has(global_scope, "print")) =>
            LET taken == {j \in 1..Len(vs) : Truthy(vs[j])} IN
            IF taken # {}
            THEN LET first == CHOOSE j \in taken : \A i \in taken : j <= i IN
                 /\ out = Nums([j \in 1..first |-> j] \o <<10 + first>>)
                 /\ result = Ok(Number(F64(10 + first, 1)))
            ELSE IF has_else
            THEN /\ out = Nums([j \in 1..Len(vs) |-> j] \o <<10>>)
                 /\ result = Ok(Number(F64(10, 1)))
            ELSE /\ out = Nums([j \in 1..Len(vs) |-> j])
                 /\ result = Ok(Number(F64(99, 1)))

C9_Witness ==
    /\ program = IfProg(<<Bool(FALSE), Num(0), Bool(TRUE)>>, TRUE)
    /\ out = Nums(<<1, 2, 12>>)
    /\ result = Ok(Number(F64(12, 1)))

----------------------------------------------------------------------------
(* Writes to and one read of the keys of one table *)

\* most writes to the table before the read
MaxWrites == 2

\* 0.5 + 0.5: a Number key computed to the integral value 1.0
OneSum == Binary(Frac(1, 2), "Add", Frac(1, 2))

\* key expressions: 0 1 (0.5 + 0.5) "1" "a" and the integers 2147483647
\* 2147483648 4294967296 at and past the end of the i32 range
KeyExprs ==
    {Num(0), Num(1), OneSum, Str("1"), Str("a"), Num(I32_MAX), Pow2(31),
     Pow2(32)}

\* the Value a key expression evaluates to
KeyValue(expr) ==
    IF expr.e = "Binary"
    THEN Number(f64_add(expr.lhs.term.x, expr.rhs.term.x))
    ELSE LiteralValue(expr)

KeyLists == UNION {[1..n -> KeyExprs] : n \in 0..MaxWrites}

\* t = {}  t[<ws[1]>] = 10  t[<ws[2]>] = 20 ...  return t[<r>]
KeyProg(ws, r) ==
    <<Assignment(Var("t"), TableOf(<<>>))>>
    \o [j \in 1..Len(ws) |-> Assignment(Index(Var("t"), ws[j]), Num(10 * j))]
    \o <<Return(Index(Var("t"), r))>>

KeyProgs == {KeyProg(ws, r) : ws \in KeyLists, r \in KeyExprs}

RunKeys == \E p \in KeyProgs : run_test_script(p)

NextKeys == DefinePrint \/ RunKeys

SpecKeys == Init /\ [][NextKeys]_vars

\* the last script was writes to and a read of the table t
IsKeyProg ==
    /\ Len(program) >= 2
    /\ program[1] = Assignment(Var("t"), TableOf(<<>>))
    /\ program[Len(program)].s = "Return"

\* the keys the last script wrote, in order, and the key it read
WrittenKeys == [j \in 1..(Len(program) - 2) |-> program[j + 1].lhs.index]

ReadKey == program[Len(program)].expr.index

\* what a read of r finds after the writes ws when keys are the same entry
\* exactly if they are the same value: the last write to it, or Nil
LastWritten(ws, r) ==
    LET same == {j \in 1..Len(ws) : KeyValue(ws[j]) = KeyValue(r)} IN
    IF same = {} THEN Nil
    ELSE Number(F64(10 * (CHOOSE j \in same : \A i \in same : i <= j), 1))

\* a String key, or a Number key with an integral value an i32 holds
SmallKey(expr) ==
    LET v == KeyValue(expr) IN
    \/ v.t = "String"
    \/ v.t = "Number" /\ v.x.d = 1 /\ v.x.exp = 0

\* C11: a Number key with an integral value and the String spelling its
\* digits are distinct entries, two Number keys with the same integral value
\* are the same entry, and a read of a key never written yields Nil and no
\* error (for Strings and the integers an i32 holds).
C11_KeyNormalization ==
    (IsKeyProg /\ program = KeyProg(WrittenKeys, ReadKey)
        /\ SmallKey(ReadKey)
        /\ \A j \in 1..Len(WrittenKeys) : SmallKey(WrittenKeys[j]))
    => result = Ok(LastWritten(WrittenKeys, ReadKey))

C11_Witness ==
    /\ program = KeyProg(<<Num(1), Str("1")>>, OneSum)
    /\ result = Ok(Number(F64(10, 1)))

\* C20: two Number keys with exact integer values are the same entry only
\* if the numbers are equal, also outside the i32 range.
C20_DistinctIntegerKeys ==
    (IsKeyProg /\ program = KeyProg(WrittenKeys, ReadKey)
        /\ KeyValue(ReadKey).t = "Number"
        /\ \A j \in 1..Len(WrittenKeys) : KeyValue(WrittenKeys[j]).t = "Number")
    => result = Ok(LastWritten(WrittenKeys, ReadKey))

----------------------------------------------------------------------------
(* Top-level statement sequences (test.rs test_literals: `return ...`) *)

\* most statements of the script
MaxStmts == 3

\* what the j-th statement does: print(j), g = j, return j, or j(), which
\* raises InvalidCall(j)
StmtKinds == {"print", "assign", "return", "fail"}

SeqStmt(kind, j) ==
    CASE kind = "print" -> ExprStmt(Call(Var("print"), <<Num(j)>>))
      [] kind = "assign" -> Assignment(Var("g"), Num(j))
      [] kind = "return" -> Return(Num(j))
      [] kind = "fail" -> ExprStmt(Call(Num(j), <<>>))

KindLists == UNION {[1..n -> StmtKinds] : n \in 0..MaxStmts}

SeqProg(ks) == [j \in 1..Len(ks) |-> SeqStmt(ks[j], j)]

SeqProgs == {SeqProg(ks) : ks \in KindLists}

RunSeq == \E p \in SeqProgs : run_test_script(p)

NextSeq == DefinePrint \/ RunSeq

SpecSeq == Init /\ [][NextSeq]_vars

\* what a statement of the last script does
KindOf(statement) ==
    CASE statement.s = "Return" -> "return"
      [] statement.s = "Assignment" -> "assign"
      [] statement.s = "Expression" ->
           IF statement.expr.callee = Var("print") THEN "print" ELSE "fail"

\* the statements that end the script: a Return, a call of a Number, and
\* print(j) when the host has not defined print (print reads as Nil)
Ends(ks) ==
    {j \in 1..Len(ks) :
        \/ ks[j] \in {"return", "fail"}
        \/ ks[j] = "print" /\ ~Scope_has(global_scope, "print")}

\* the subsequence of the positions of kind `kind` before position `last`
RECURSIVE Before(_, _, _, _)
Before(ks, kind, last, j) ==
    IF j >= last THEN <<>>
    ELSE (IF ks[j] = kind THEN <<j>> ELSE <<>>) \o Before(ks, kind, last, j + 1)

\* C12: execute returns the value of the first top-level Return reached, Nil
\* when the script runs to its end, and the first typed error raised; the
\* statements before that one have run, in order, and none after it has.
C12_FirstReturnOrError ==
    LET ks == [j \in 1..Len(program) |-> KindOf(program[j])] IN
    (calls = 1 /\ program = SeqProg(ks)) =>
        LET end == IF Ends(ks) = {} THEN Len(ks) + 1
                   ELSE CHOOSE j \in Ends(ks) : \A i \in Ends(ks) : j <= i
            assigned == Before(ks, "assign", end, 1)
        IN  /\ result =
                 IF end > Len(ks) THEN Ok(Nil)
                 ELSE IF ks[end] = "return" THEN Ok(Number(F64(end, 1)))
                 ELSE IF ks[end] = "fail"
                 THEN LuaError("InvalidCall", Number(F64(end, 1)))
                 ELSE LuaError("InvalidCall", Nil)
            /\ out = Nums(Before(ks, "print", end, 1))
            /\ IF assigned = <<>> THEN ~Scope_has(global_scope, "g")
               ELSE /\ Scope_has(global_scope, "g")
                    /\ cells[global_scope["g"]]
                         = Number(F64(assigned[Len(assigned)], 1))

C12_Witness ==
    /\ program = SeqProg(<<"print", "return", "assign">>)
    /\ result = Ok(Number(F64(2, 1)))
    /\ out = Nums(<<1>>)
    /\ ~Scope_has(global_scope, "g")

----------------------------------------------------------------------------
(* Several execute and define calls on one interpreter instance *)

GlobalNames == {"a", "b"}

GlobalValues == {Num(1), Num(2)}

\* <name> = v
AssignProg(name, v) == <<Assignment(Var(name), v)>>

\* function <name>() return 7 end
FuncProg(name) == <<FunctionDecl(name, <<>>, <<Return(Num(7))>>)>>

\* local <name> = v  <name> = w
LocalProg(name, v, w) == <<Local(name, v), Assignment(Var(name), w)>>

\* return <name>
ReadProg(name) == <<Return(Var(name))>>

AssignProgs == {AssignProg(name, v) : name \in GlobalNames, v \in GlobalValues}

FuncProgs == {FuncProg(name) : name \in GlobalNames}

LocalProgs ==
    {LocalProg(name, v, w) :
        name \in GlobalNames, v \in GlobalValues, w \in GlobalValues}

ReadProgs == {ReadProg(name) : name \in GlobalNames}

DefineNative == \E name \in GlobalNames : define(name, "print")

ExecuteAssignProg == \E p \in AssignProgs : execute(p)

ExecuteFuncProg == \E p \in FuncProgs : execute(p)

ExecuteLocalProg == \E p \in LocalProgs : execute(p)

ExecuteReadProg == \E p \in ReadProgs : execute(p)

NextGlobals ==
    \/ DefineNative
    \/ ExecuteAssignProg
    \/ ExecuteFuncProg
    \/ ExecuteLocalProg
    \/ ExecuteReadProg

SpecGlobals == Init /\ [][NextGlobals]_vars

\* what the global scope binds a name to, Nil when it binds nothing
GlobalValue(name) ==
    IF Scope_has(global_scope, name) THEN cells[global_scope[name]] ELSE Nil

\* no global binding other than that of `name` changes in the step
OnlyGlobal(name) ==
    \A n \in GlobalNames \ {name} : GlobalValue(n)' = GlobalValue(n)

\* C13: on one instance a later execute reads, for every name, the last
\* value an earlier call bound globally: a top-level read returns the global
\* binding as the call found it and leaves it; an assignment to a name not
\* bound locally, a named-function declaration and define write the global
\* binding of that name only; a top-level local, and an assignment to it,
\* leave every global binding as it was, so the name reads as Nil (or as its
\* older global value) in the next execute; `scope` is the top-level scope
\* the previous execute ended with.
C13_GlobalsPersist ==
    [][\A name \in GlobalNames :
        /\ (calls' = calls + 1 /\ program' = ReadProg(name))
              => /\ result' = Ok(GlobalValue(name))
                 /\ GlobalValue(name)' = GlobalValue(name)
                 /\ OnlyGlobal(name)
        /\ (/\ calls' = calls + 1 /\ program' = ReadProg(name)
            /\ Scope_has(scope, name) /\ ~Scope_has(global_scope, name))
              => result' = Ok(Nil)
        /\ \A v \in GlobalValues :
              (calls' = calls + 1 /\ program' = AssignProg(name, v))
                  => GlobalValue(name)' = LiteralValue(v) /\ OnlyGlobal(name)
        /\ (calls' = calls + 1 /\ program' = FuncProg(name))
              => /\ GlobalValue(name)'
                      = FunctionCapture(<<>>, <<Return(Num(7))>>, EmptyScope)
                 /\ OnlyGlobal(name)
        /\ \A v \in GlobalValues, w \in GlobalValues :
              (calls' = calls + 1 /\ program' = LocalProg(name, v, w))
                  => /\ GlobalValue(name)' = GlobalValue(name)
                     /\ OnlyGlobal(name)
                     /\ result' = Ok(Nil)
        /\ (calls' = calls /\ GlobalValue(name)' # GlobalValue(name))
              => /\ GlobalValue(name)' = NativeFunction("print")
                 /\ OnlyGlobal(name)]_vars

\* the third execute reads the 2 an earlier one assigned to a, and the host
\* has defined b
C13_Witness ==
    /\ program = ReadProg("a")
    /\ calls = 3
    /\ result = Ok(Number(F64(2, 1)))
    /\ GlobalValue("b") = NativeFunction("print")

----------------------------------------------------------------------------
(* Two Interpreter instances in one process *)

\* most execute calls on the first instance
MaxFirstCalls == 2

\* most execute calls on the second instance
MaxOtherCalls == 2

\* t = {} / t.x = a / function f() a = 3 return t end / return f()
InstProgs ==
    {<<Assignment(Var("t"), TableOf(<<>>))>>,
     <<Assignment(Dot(Var("t"), "x"), Var("a"))>>,
     <<FunctionDecl("f", <<>>,
           <<Assignment(Var("a"), Num(3)), Return(Var("t"))>>)>>,
     <<Return(Call(Var("f"), <<>>))>>}

\* execute(p) on an Interpreter with the global scope st.global in the
\* process st: the process after the call and what the call returned
Interpreter_execute(st, p) ==
    LET x == execute_body(st, EmptyScope, p) IN
    [st |-> x.st,
     result |-> IF x.r.kind # "Ok" THEN x.r
                ELSE Ok(IF x.r.opt = <<>> THEN Nil ELSE x.r.opt[1])]

\* the first instance executes p; so does the instance of the solo process
FirstExecute(p) ==
    /\ Alive
    /\ calls < MaxFirstCalls
    /\ LET x == Interpreter_execute([cells |-> cells, tables |-> tables,
                                     global |-> global_scope, out |-> out], p)
           y == Interpreter_execute([cells |-> solo.cells,
                                     tables |-> solo.tables,
                                     global |-> solo.global,
                                     out |-> solo.out], p)
       IN  /\ global_scope' = x.st.global
           /\ cells' = x.st.cells
           /\ tables' = x.st.tables
           /\ out' = x.st.out
           /\ result' = x.result
           /\ solo' = [cells |-> y.st.cells, tables |-> y.st.tables,
                       global |-> y.st.global, out |-> y.st.out,
                       result |-> y.result]
    /\ program' = p
    /\ calls' = calls + 1
    /\ UNCHANGED <<scope, other>>

\* the host defines a on the first instance, and on that of the solo process
FirstDefine ==
    /\ Alive
    /\ LET x == global_put([cells |-> cells, tables |-> tables,
                            global |-> global_scope, out |-> out],
                           "a", NativeFunction("print"))
           y == global_put([cells |-> solo.cells, tables |-> solo.tables,
                            global |-> solo.global, out |-> solo.out],
                           "a", NativeFunction("print"))
       IN  /\ global_scope' = x.global
           /\ cells' = x.cells
           /\ solo' = [solo EXCEPT !.cells = y.cells, !.global = y.global]
    /\ UNCHANGED <<tables, out, program, result, scope, calls, other>>

\* the host makes the second instance
OtherNew ==
    /\ ~other.made
    /\ other' = NewInstance
    /\ UNCHANGED <<global_scope, cells, tables, out, program, result, scope,
                   calls, solo>>

\* the second instance executes p
OtherExecute(p) ==
    /\ Alive
    /\ other.made
    /\ other.calls < MaxOtherCalls
    /\ LET x == Interpreter_execute([cells |-> cells, tables |-> tables,
                                     global |-> other.global, out |-> out], p)
       IN  /\ cells' = x.st.cells
           /\ tables' = x.st.tables
           /\ out' = x.st.out
           /\ other' = [other EXCEPT !.global = x.st.global,
                                     !.result = x.result,
                                     !.calls = other.calls + 1]
    /\ UNCHANGED <<global_scope, program, result, scope, calls, solo>>

\* the host defines a on the second instance
OtherDefine ==
    /\ Alive
    /\ other.made
    /\ LET x == global_put([cells |-> cells, tables |-> tables,
                            global |-> other.global, out |-> out],
                           "a", NativeFunction("print"))
       IN  /\ cells' = x.cells
           /\ other' = [other EXCEPT !.global = x.global]
    /\ UNCHANGED <<global_scope, tables, out, program, result, scope, calls,
                   solo>>

NextInstances ==
    \/ \E p \in InstProgs : FirstExecute(p)
    \/ FirstDefine
    \/ OtherNew
    \/ \E p \in InstProgs : OtherExecute(p)
    \/ OtherDefine

SpecInstances == Init /\ [][NextInstances]_vars

\* a Value with the cells and tables it points to put in place of their ids
RECURSIVE Resolve(_, _)
Resolve(st, v) ==
    CASE v.t = "Table" ->
           [t |-> "Table",
            items |-> [i \in DOMAIN st.tables[v.id] |->
                          Resolve(st, st.tables[v.id][i])]]
      [] v.t = "Function" ->
           [t |-> "Function", parameters |-> v.parameters, body |-> v.body,
            capture |-> [n \in DOMAIN v.capture |->
                            Resolve(st, st.cells[v.capture[n]])]]
      [] OTHER -> v

\* what an instance shows its host: the last result and the contents of
\* its global scope
Shows(st, r) ==
    [result |-> IF r.kind \in {"Ok", "Err"}
                THEN [r EXCEPT !.value = Resolve(st, r.value)] ELSE r,
     global |-> [n \in DOMAIN st.global |->
                    Resolve(st, st.cells[st.global[n]])]]

\* C14: whatever calls the second instance receives, and however they
\* interleave with those of the first, the first instance's results and the
\* contents of its global scope are those of an instance that received the
\* same calls with no second instance in its process.
C14_InstancesIsolated ==
    Shows([cells |-> cells, tables |-> tables, global |-> global_scope,
           out |-> out], result)
        = Shows(solo, solo.result)

\* both instances hold a global a, with different values: the first one
\* has just called its f, the host has defined a on the second one, which
\* has executed a script
C14_Witness ==
    /\ program = <<Return(Call(Var("f"), <<>>))>>
    /\ result = Ok(Nil)
    /\ cells[global_scope["a"]] = Number(F64(3, 1))
    /\ other.calls >= 1
    /\ Scope_has(other.global, "a")
    /\ cells[other.global["a"]] = NativeFunction("print")

----------------------------------------------------------------------------
(* Closures and the scope they were made in (test.rs test_captures) *)

\* most statements between the making of the closures and the reads
MaxOps == 4

\* function() l = l + 1 return l end
IncFn ==
    Fn(<<>>, <<Assignment(Var("l"), Binary(Var("l"), "Add", Num(1))),
               Return(Var("l"))>>)

\* function() return l end
GetFn == Fn(<<>>, <<Return(Var("l"))>>)

\* a write to l: by the closure inc(), by the defining scope l = l + 10, or
\* by the defining scope declaring it again, local l = l + 100
CaptureOps == {"inc", "set", "local"}

CaptureOp(op) ==
    CASE op = "inc" -> ExprStmt(Call(Var("inc"), <<>>))
      [] op = "set" -> Assignment(Var("l"), Binary(Var("l"), "Add", Num(10)))
      [] op = "local" -> Local("l", Binary(Var("l"), "Add", Num(100)))

OpLists == UNION {[1..n -> CaptureOps] : n \in 0..MaxOps}

\* local l = 0  local inc = function() ... end  local get = function() ... end
\* <ops>  print(l)  print(get())  return inc()
SharedProg(ops) ==
    <<Local("l", Num(0)), Local("inc", IncFn), Local("get", GetFn)>>
    \o [j \in 1..Len(ops) |-> CaptureOp(ops[j])]
    \o <<ExprStmt(Call(Var("print"), <<Var("l")>>)),
         ExprStmt(Call(Var("print"), <<Call(Var("get"), <<>>)>>)),
         Return(Call(Var("inc"), <<>>))>>

\* [l = 5]  local inc = function() ... end  local l = 0  local r = inc()
\* print(r)  return l
LateProg(global_first) ==
    (IF global_first THEN <<Assignment(Var("l"), Num(5))>> ELSE <<>>)
    \o <<Local("inc", IncFn), Local("l", Num(0)),
         Local("r", Call(Var("inc"), <<>>)),
         ExprStmt(Call(Var("print"), <<Var("r")>>)),
         Return(Var("l"))>>

\* most calls of the closure with a parameter
MaxParamCalls == 2

\* values of the variable p of the defining scope
ParamValues == {Num(1), Str("a")}

\* arguments the closure is called with
ParamArgs == {Num(7), Bool(TRUE)}

ParamArgLists == UNION {[1..n -> ParamArgs] : n \in 0..MaxParamCalls}

\* local p = <v>  local f = function(p) return p end
\* local g = function() return p end  f(<args[1]>) ...  print(g())  return p
ParamProg(v, args) ==
    <<Local("p", v), Local("f", Fn(<<"p">>, <<Return(Var("p"))>>)),
      Local("g", Fn(<<>>, <<Return(Var("p"))>>))>>
    \o [j \in 1..Len(args) |-> ExprStmt(Call(Var("f"), <<args[j]>>))]
    \o <<ExprStmt(Call(Var("print"), <<Call(Var("g"), <<>>)>>)),
         Return(Var("p"))>>

ParamProgs == {ParamProg(v, args) : v \in ParamValues, args \in ParamArgLists}

RunParam == \E p \in ParamProgs : run_test_script(p)

SharedProgs == {SharedProg(ops) : ops \in OpLists}

LateProgs == {LateProg(global_first) : global_first \in BOOLEAN}

RunShared == \E p \in SharedProgs : run_test_script(p)

RunLate == \E p \in LateProgs : run_test_script(p)

NextCapture == DefinePrint \/ RunShared \/ RunLate \/ RunParam

SpecCapture == Init /\ [][NextCapture]_vars

\* the last script made its closures after `local l = 0`
IsSharedProg == Len(program) >= 6 /\ program[1] = Local("l", Num(0))

\* the writes of the last script, in order
OpsOf ==
    [j \in 1..(Len(program) - 6) |->
        CASE program[j + 3].s = "Expression" -> "inc"
          [] program[j + 3].s = "Assignment" -> "set"
          [] program[j + 3].s = "Local" -> "local"]

\* what l holds after the writes ops when every write is seen by all
RECURSIVE Total(_, _)
Total(ops, j) ==
    IF j > Len(ops) THEN 0
    ELSE (CASE ops[j] = "inc" -> 1 [] ops[j] = "set" -> 10
            [] ops[j] = "local" -> 100)
         + Total(ops, j + 1)

\* C15: a closure shares the cells of the names its defining scope had when
\* it was made: after any writes to l by the defining scope and by a
\* closure, the defining scope and both closures read the same l; a name
\* the defining scope binds after the closure was made is not seen by the
\* closure, which reads and writes the global of that name, so l = l + 1
\* raises InvalidArithmetic(Nil) when there is no global l.
C15_CaptureSnapshot ==
    (calls = 1 /\ Scope_has(global_scope, "print")) =>
        /\ (IsSharedProg /\ program = SharedProg(OpsOf))
              => /\ out = Nums(<<Total(OpsOf, 1), Total(OpsOf, 1)>>)
                 /\ result = Ok(Number(F64(Total(OpsOf, 1) + 1, 1)))
                 /\ ~Scope_has(global_scope, "l")
        /\ program = LateProg(FALSE)
              => /\ result = LuaError("InvalidArithmetic", Nil)
                 /\ out = <<>>
                 /\ ~Scope_has(global_scope, "l")
        /\ program = LateProg(TRUE)
              => /\ result = Ok(Number(F64(0, 1)))
                 /\ out = Nums(<<6>>)
                 /\ cells[global_scope["l"]] = Number(F64(6, 1))

C15_Witness ==
    /\ program = SharedProg(<<"inc", "set", "local", "inc">>)
    /\ out = Nums(<<112, 112>>)
    /\ result = Ok(Number(F64(113, 1)))

\* C16: binding the parameter p of a closure made where a variable p
\* existed changes the callee's scope only: after any calls f(arg) the
\* defining scope and another closure made from it still read the p the
\* defining scope declared.
C16_ParameterBindingLocal ==
    \A v \in ParamValues, args \in ParamArgLists :
        (program = ParamProg(v, args) /\ Scope_has(global_scope, "print"))
            => /\ result = Ok(LiteralValue(v))
               /\ out = <<LiteralValue(v)>>

----------------------------------------------------------------------------
(* A Return under nested ifs and numeric fors *)

\* most constructs around the Return
MaxDepth == 3

\* what encloses the next level: the block of a true primary condition, of
\* a true elseif, the else block, the body of `for i = 1, 3`, or the body of
\* `for i = 1, 3` under `if i == 2`
Wraps == {"if", "elseif", "else", "for", "for2"}

WrapLists == UNION {[1..n -> Wraps] : n \in 0..MaxDepth}

Say(n) == ExprStmt(Call(Var("print"), <<Num(n)>>))

\* the statements at depth d: the construct ws[d] around those of depth
\* d + 1, then print(90 + d); at the bottom print(0) return 42 print(99).
\* The body of a for at depth d begins with print(d).
RECURSIVE Nest(_, _)
Nest(ws, d) ==
    IF d > Len(ws) THEN <<Say(0), Return(Num(42)), Say(99)>>
    ELSE
    <<CASE ws[d] = "if" -> If(Bool(TRUE), Nest(ws, d + 1), <<>>, <<>>)
        [] ws[d] = "elseif" ->
             If(Bool(FALSE), <<Say(80)>>,
                <<[condition |-> Bool(TRUE), then |-> Nest(ws, d + 1)]>>,
                <<>>)
        [] ws[d] = "else" ->
             If(Bool(FALSE), <<Say(80)>>, <<>>, <<Nest(ws, d + 1)>>)
        [] ws[d] = "for" ->
             NumericFor("i", Num(1), Num(3), <<>>,
                        <<Say(d)>> \o Nest(ws, d + 1))
        [] ws[d] = "for2" ->
             NumericFor("i", Num(1), Num(3), <<>>,
                        <<Say(d),
                          If(Binary(Var("i"), "Equals", Num(2)),
                             Nest(ws, d + 1), <<>>, <<>>)>>),
      Say(90 + d)>>

\* the nest at top level, or
\* function f() <nest> end  local r = f()  print(r)  return 7
NestProg(ws, in_function) ==
    IF in_function
    THEN <<FunctionDecl("f", <<>>, Nest(ws, 1)),
           Local("r", Call(Var("f"), <<>>)),
           ExprStmt(Call(Var("print"), <<Var("r")>>)),
           Return(Num(7))>>
    ELSE Nest(ws, 1)

NestProgs ==
    {NestProg(ws, in_function) : ws \in WrapLists, in_function \in BOOLEAN}

RunNest == \E p \in NestProgs : run_test_script(p)

NextNest == DefinePrint \/ RunNest

SpecNest == Init /\ [][NextNest]_vars

\* the constructs around the Return of a nest, outermost first
RECURSIVE WrapsOf(_)
WrapsOf(b) ==
    IF b[1].s = "If"
    THEN (IF b[1].condition = Bool(TRUE)
          THEN <<"if">> \o WrapsOf(b[1].then)
          ELSE IF b[1].elseif # <<>>
          THEN <<"elseif">> \o WrapsOf(b[1].elseif[1].then)
          ELSE <<"else">> \o WrapsOf(b[1].else_[1]))
    ELSE IF b[1].s = "NumericFor"
    THEN (IF b[1].body[2].s = "If" /\ b[1].body[2].condition.e = "Binary"
          THEN <<"for2">> \o WrapsOf(b[1].body[2].then)
          ELSE <<"for">> \o WrapsOf(Tail(b[1].body)))
    ELSE <<>>

\* what is printed on the way to the Return: d once for a for at depth d,
\* twice for one that returns in its second iteration, then 0
RECURSIVE Path(_, _)
Path(ws, d) ==
    IF d > Len(ws) THEN <<0>>
    ELSE (CASE ws[d] = "for" -> <<d>>
            [] ws[d] = "for2" -> <<d, d>>
            [] OTHER -> <<>>)
         \o Path(ws, d + 1)

\* C17: a Return under any nesting of if blocks and numeric-for bodies ends
\* every enclosing loop at once: no further iteration and no statement
\* after it, in any enclosing block, runs; its value is the result of the
\* function call around it, whose caller goes on, or of execute.
C17_ReturnUnwinds ==
    (calls = 1 /\ Scope_has(global_scope, "print")) =>
        LET in_function == program[1].s = "Function"
            ws == WrapsOf(IF in_function THEN program[1].function.body
                          ELSE program)
        IN  program = NestProg(ws, in_function) =>
                IF in_function
                THEN /\ out = Nums(Path(ws, 1) \o <<42>>)
                     /\ result = Ok(Number(F64(7, 1)))
                ELSE /\ out = Nums(Path(ws, 1))
                     /\ result = Ok(Number(F64(42, 1)))

C17_Witness ==
    /\ program = NestProg(<<"for", "else", "for2">>, TRUE)
    /\ out = Nums(<<1, 3, 3, 0, 42>>)
    /\ result = Ok(Number(F64(7, 1)))

----------------------------------------------------------------------------
(* One assignment to a bare variable after globals and locals were bound *)

AssignNames == {"a", "b"}

\* the other name
Other(name) == IF name = "a" THEN "b" ELSE "a"

\* the numbers the script binds: global a = 1, b = 2; local a = 11, b = 12
GlobalNum(name) == IF name = "a" THEN 1 ELSE 2

LocalNum(name) == 10 + GlobalNum(name)

\* right sides: 5, "s", <target> + 1, <the other name>, f()
RhsKinds == {"number", "string", "self", "other", "call"}

Rhs(kind, target) ==
    CASE kind = "number" -> Num(5)
      [] kind = "string" -> Str("s")
      [] kind = "self" -> Binary(Var(target), "Add", Num(1))
      [] kind = "other" -> Var(Other(target))
      [] kind = "call" -> Call(Var("f"), <<>>)

\* the statement binding name, when name is in names
Bind(names, name, statement) == IF name \in names THEN <<statement>> ELSE <<>>

\* function f() a = 9 return 5 end  [a = 1] [b = 2]  [local a = 11]
\* [local b = 12]  <target> = <rhs>
TargetProg(gl, lo, target, kind) ==
    <<FunctionDecl("f", <<>>, <<Assignment(Var("a"), Num(9)), Return(Num(5))>>)>>
    \o Bind(gl, "a", Assignment(Var("a"), Num(GlobalNum("a"))))
    \o Bind(gl, "b", Assignment(Var("b"), Num(GlobalNum("b"))))
    \o Bind(lo, "a", Local("a", Num(LocalNum("a"))))
    \o Bind(lo, "b", Local("b", Num(LocalNum("b"))))
    \o <<Assignment(Var(target), Rhs(kind, target))>>

TargetProgs ==
    {TargetProg(gl, lo, target, kind) :
        gl \in SUBSET AssignNames, lo \in SUBSET AssignNames,
        target \in AssignNames, kind \in RhsKinds}

RunTarget == \E p \in TargetProgs : run_test_script(p)

NextAssign == RunTarget

SpecAssign == Init /\ [][NextAssign]_vars

\* what a read of name gives before the assignment, f() having run or not
Reads(gl, lo, name, called) ==
    IF name \in lo THEN Number(F64(LocalNum(name), 1))
    ELSE IF called /\ name = "a" THEN Number(F64(9, 1))
    ELSE IF name \in gl THEN Number(F64(GlobalNum(name), 1))
    ELSE Nil

\* the value of the right side, Nil + 1 being the error
RhsValue(gl, lo, target, kind) ==
    CASE kind = "number" -> Number(F64(5, 1))
      [] kind = "string" -> String("s")
      [] kind = "self" ->
           IF Reads(gl, lo, target, FALSE) = Nil THEN Nil
           ELSE Number(f64_add(Reads(gl, lo, target, FALSE).x, F64(1, 1)))
      [] kind = "other" -> Reads(gl, lo, Other(target), FALSE)
      [] kind = "call" -> Number(F64(5, 1))

\* C18: an assignment to a bare variable evaluates the right side first and
\* then writes one binding, that of the current scope when the name is
\* bound there and the global one otherwise; the current scope binds the
\* names it bound before and no other, and every other binding of the two
\* scopes keeps its value (what the right side itself wrote aside: f()
\* binds the global a to 9).  When the right side fails nothing is written.
C18_AssignWritesOneBinding ==
    \A gl \in SUBSET AssignNames, lo \in SUBSET AssignNames,
       target \in AssignNames, kind \in RhsKinds :
        program = TargetProg(gl, lo, target, kind) =>
            LET failed == kind = "self" /\ Reads(gl, lo, target, FALSE) = Nil
                called == kind = "call"
                v == RhsValue(gl, lo, target, kind)
                globals == gl \cup (IF called THEN {"a"} ELSE {})
                                \cup (IF failed \/ target \in lo THEN {}
                                      ELSE {target})
            IN  /\ result = IF failed THEN LuaError("InvalidArithmetic", Nil)
                            ELSE Ok(Nil)
                /\ DOMAIN scope = lo
                /\ DOMAIN global_scope = globals \cup {"f"}
                /\ \A name \in lo :
                      cells[scope[name]] =
                          IF name = target /\ ~failed THEN v
                          ELSE Reads(gl, lo, name, called)
                /\ \A name \in globals :
                      cells[global_scope[name]] =
                          IF name = target /\ ~failed /\ target \notin lo THEN v
                          ELSE Reads(gl, {}, name, called)

\* a is bound in both scopes: a = f() writes the local a after f wrote the
\* global one
C18_Witness ==
    /\ program = TargetProg({"a", "b"}, {"a"}, "a", "call")
    /\ cells[scope["a"]] = Number(F64(5, 1))
    /\ cells[global_scope["a"]] = Number(F64(9, 1))
    /\ cells[global_scope["b"]] = Number(F64(2, 1))

----------------------------------------------------------------------------
(* One table constructor per script *)

\* most entries of the constructor
MaxItems == 3

\* an entry: v / [1] = v / [2] = v / x = v / ["1"] = v
ItemKinds == {"auto", "one", "two", "name", "str"}

\* the j-th entry, of value 10 * j
Item(kind, j) ==
    [index |->
         CASE kind = "auto" -> <<>>
           [] kind = "one" -> <<[k |-> "Value", expr |-> Num(1)]>>
           [] kind = "two" -> <<[k |-> "Value", expr |-> Num(2)]>>
           [] kind = "name" -> <<[k |-> "Name", name |-> "x"]>>
           [] kind = "str" -> <<[k |-> "Value", expr |-> Str("1")]>>,
     expr |-> Num(10 * j)]

ItemLists == UNION {[1..n -> ItemKinds] : n \in 0..MaxItems}

\* return {<entries>}
ItemsProg(ks) == <<Return(TableOf([j \in 1..Len(ks) |-> Item(ks[j], j)]))>>

ItemsProgs == {ItemsProg(ks) : ks \in ItemLists}

RunItems == \E p \in ItemsProgs : run_test_script(p)

NextItems == DefinePrint \/ RunItems

SpecItems == Init /\ [][NextItems]_vars

\* the kinds of the entries of the last script
ItemKindsOf ==
    LET items == program[1].expr.term.items IN
    [j \in 1..Len(items) |->
        IF items[j].index = <<>> THEN "auto"
        ELSE IF items[j].index[1].k = "Name" THEN "name"
        ELSE IF items[j].index[1].expr = Num(1) THEN "one"
        ELSE IF items[j].index[1].expr = Num(2) THEN "two"
        ELSE "str"]

\* the index the j-th entry is stored at: an entry without a key counts
\* the entries without a key up to it
StoredAt(ks, j) ==
    CASE ks[j] = "auto" ->
           Index_Number(Cardinality({i \in 1..j : ks[i] = "auto"}))
      [] ks[j] = "one" -> Index_Number(1)
      [] ks[j] = "two" -> Index_Number(2)
      [] ks[j] = "name" -> Index_Name("x")
      [] ks[j] = "str" -> Index_Name("1")

\* C19: the k-th entry without a key is stored at Number index k, whatever
\* explicit numeric keys come before it, and of the entries stored at one
\* index the last in source order is the one the table holds.
C19_ConstructorIndices ==
    (calls = 1 /\ program = ItemsProg(ItemKindsOf)) =>
        LET ks == ItemKindsOf
            table == tables[result.value.id]
        IN  /\ result.kind = "Ok" /\ result.value.t = "Table"
            /\ DOMAIN table = {StoredAt(ks, j) : j \in 1..Len(ks)}
            /\ \A j \in 1..Len(ks) :
                  table[StoredAt(ks, j)] =
                      Number(F64(10 * (CHOOSE l \in j..Len(ks) :
                                          /\ StoredAt(ks, l) = StoredAt(ks, j)
                                          /\ \A m \in (l + 1)..Len(ks) :
                                                StoredAt(ks, m) # StoredAt(ks, j)),
                                 1))

\* {[1] = 10, 20, 30}: 20 is at index 1 and 30 at index 2
C19_Witness ==
    /\ program = ItemsProg(<<"one", "auto", "auto">>)
    /\ result = Ok(Table(1))
    /\ tables[1] = (Index_Number(1) :> Number(F64(20, 1)))
                       @@ (Index_Number(2) :> Number(F64(30, 1)))

====
